---- MODULE Spec2Model ----
(***************************************************************************)
(* A model of simulator.py: the Rocket (set_thrust, update) driven either  *)
(* by hand (no controller), by an arbitrary controller, or by the PID      *)
(* controller that Simulation attaches.                                    *)
(*                                                                         *)
(* Numbers are fixed point.  A throttle is an integer number of            *)
(* hundredths.  Time is counted in 1/TimeDen seconds, a position in        *)
(* 1/PosDen metres, and a velocity in 1/(MASS * TimeDen) metres per        *)
(* second, so that acceleration * dt is an integer and the float64         *)
(* velocity is exact.  The position is the float32 array of the source:    *)
(* it is stored rounded to the nearest multiple of 1/PosDen, ties to even. *)
(* With TimeDen = 2^10 and PosDen = 2^14 the position grid is exactly      *)
(* float32's grid between 512 and 1024, where GROUND_Y = 550 lies.         *)
(***************************************************************************)
EXTENDS Integers, Sequences, FiniteSets

VARIABLES pos, vel, thrust_percent, controller, pid, ticks, last, pre, fall

vars == <<pos, vel, thrust_percent, controller, pid, ticks, last, pre, fall>>

(***************************************************************************)
(* Program constants.                                                      *)
(***************************************************************************)
WIDTH == 800
GROUND_Y == 550
TARGET_Y == 200
GRAVITY_TENTHS == 98
MASS == 27670
MAX_THRUST_FORCE == 410000
NumActions == 11
\* PIDController(setpoint=TARGET_Y, kp=1., ki=.0001, kd=2.3):
\* kp, 1 / ki and 10 * kd
KP == 1
KI_INV == 10000
KD_TENTHS == 23

\* self._actions = range(0, 11)
actions == 0 .. (NumActions - 1)

\* A throttle is written in hundredths: 70 is 0.7.
PercentDen == 10 * 10

(***************************************************************************)
(* Units of the hand-driven and arbitrary-controller specifications.       *)
(***************************************************************************)
TimeDen == 2 ^ 10
PosDen == 2 ^ 14
\* velocity * dt units in one position unit
StepDen == MASS * ((TimeDen * TimeDen) \div PosDen)

\* Units of the closed-loop specification, whose flight from GROUND_Y to
\* TARGET_Y takes seconds: a tick-sized time unit, and a position grid
\* coarser than float32's so that the integers stay within 32 bits.
SimTimeDen == 2 ^ 6
SimPosDen == 2 ^ 12
SimStepDen == MASS * ((SimTimeDen * SimTimeDen) \div SimPosDen)

\* A control signal is written in thousandths.
SignalDen == 10 ^ 3

(***************************************************************************)
(* Bounds of the model.                                                    *)
(***************************************************************************)
MaxTicks == 3
MaxCtlTicks == 2
MaxSimTicks == 4000

\* the fixed dt of a closed-loop run, in 1/SimTimeDen s
SimDts == {1, 2}

\* dt values, in 1/TimeDen s: zero, one too small to move a float32
\* position near GROUND_Y, and a frame-sized one.
DtSet == {0, 1, 16}
\* set_thrust arguments, in hundredths.
Percents == {-10, 0, 5, 70, 100, 105, 110}
\* starting heights above the ground, in position units.
StartDrops == {0, 120}
\* control signals, in thousandths: one for every throttle level, both
\* sides of the outer and the middle cuts of the rounded sigmoid, and two
\* far beyond exp's range.
Signals == {-800000, -2945, -2944, -1735, -1099, -620, -201, -200, 0, 200,
            201, 620, 1099, 1735, 2944, 2945, 800000}

(***************************************************************************)
(* Arithmetic helpers.                                                     *)
(***************************************************************************)
\* Python's int() of the quotient n / m, m > 0: truncation toward zero.
Trunc(n, m) == IF n >= 0 THEN n \div m ELSE -((-n) \div m)

\* Python's min
Min(a, b) == IF a <= b THEN a ELSE b

Abs(n) == IF n >= 0 THEN n ELSE -n

\* The floor of a * b / c for b >= 0 and c > 0, with no product beyond
\* 32 bits.
MulDiv(a, b, c) == (a \div c) * b + ((a % c) * b) \div c

\* float32(base + num / den) for integers base, num and den > 0, in units of
\* the float32 grid: round to nearest, ties to even.
StoreF32(base, num, den) ==
    LET q == num \div den
        r == num - q * den
        lo == base + q
    IN  IF 2 * r < den THEN lo
        ELSE IF 2 * r > den THEN lo + 1
        ELSE IF lo % 2 = 0 THEN lo ELSE lo + 1

(***************************************************************************)
(* Rocket.set_thrust: the assertion, and the assignment that follows it.   *)
(***************************************************************************)
\* assert int(percent * (len(self._actions) - 1)) in self._actions
accepts(percent) ==
    Trunc(percent * (Cardinality(actions) - 1), PercentDen) \in actions

\* Mutant: the assignment made before the assertion.
set_thrust_AssignFirst(cur, percent) == percent

\* The throttle after set_thrust(percent) on a rocket whose throttle is cur.
set_thrust(cur, percent) == IF accepts(percent) THEN percent ELSE cur

(***************************************************************************)
(* Rocket.update, lines 90-103: forces, integration, ground contact.       *)
(***************************************************************************)
\* acc = GRAVITY, plus thrust_max_force * thrust_percent / mass when the
\* throttle is nonzero; the y component, times MASS.  The thrust points up
\* (negative y).
Accel(th) ==
    LET g == (GRAVITY_TENTHS * MASS) \div 10
    IN  IF th # 0 THEN g - (MAX_THRUST_FORCE * th) \div PercentDen ELSE g

\* Mutant: the velocity assigned, not accumulated.
VelStep_Assign(v, th, d) == [x |-> 0 * d, y |-> Accel(th) * d]

\* self._vel += acc * dt
VelStep(v, th, d) == [x |-> v.x + 0 * d, y |-> v.y + Accel(th) * d]

\* self._pos += self._vel * dt, stored as float32
PosStep(p, v, d, den) ==
    [x |-> StoreF32(p.x, v.x * d, den), y |-> StoreF32(p.y, v.y * d, den)]

\* if self._pos[1] >= GROUND_Y
Contact(p, ground) == p.y >= ground

\* Mutant: the velocity left as it is on ground contact.
GroundVel_Keep(v) == v

\* Mutant: the rocket stopped on ground contact even when it is going up.
GroundVel_Stop(v) == [x |-> v.x, y |-> 0]

\* self._vel[1] = min(0, self._vel[1])
GroundVel(v) == [x |-> v.x, y |-> Min(0, v.y)]

\* Mutant: the position not put back on the ground.
Integrate_NoClamp(p, v, th, d, den, ground) ==
    LET v1 == VelStep(v, th, d)
        p1 == PosStep(p, v1, d, den)
    IN  IF Contact(p1, ground)
        THEN [pos |-> p1, vel |-> GroundVel(v1), contact |-> TRUE]
        ELSE [pos |-> p1, vel |-> v1, contact |-> FALSE]

\* Lines 90-103 on position p, velocity v and throttle th.
Integrate(p, v, th, d, den, ground) ==
    LET v1 == VelStep(v, th, d)
        p1 == PosStep(p, v1, d, den)
    IN  IF Contact(p1, ground)
        THEN [pos |-> [x |-> p1.x, y |-> ground], vel |-> GroundVel(v1),
              contact |-> TRUE]
        ELSE [pos |-> p1, vel |-> v1, contact |-> FALSE]

Ground == GROUND_Y * PosDen

(***************************************************************************)
(* Rocket.update, lines 85-88: the throttle the controller commands.       *)
(***************************************************************************)
\* SigmoidCut[k] is the least x, in thousandths, with
\* 1 / (1 + exp(-x)) >= (2k - 1) / 20, the least value that round(.., 1)
\* takes to k tenths: 1000 * ln((2k - 1) / (21 - 2k)), rounded up.
SigmoidCut == <<-2944, -1734, -1098, -619, -200, 201, 620, 1099, 1735, 2945>>

\* round(self._sigmoid(x), 1) in hundredths, x in thousandths.  exp(-x)
\* overflows to inf for a very negative x, and the quotient is then 0.
RoundedSigmoid(x) ==
    10 * Cardinality({k \in DOMAIN SigmoidCut : x >= SigmoidCut[k]})

\* Mutant: the sign of the control signal kept.
Command_NoNegation(control_var) == RoundedSigmoid(control_var)

\* Mutant: the throttle commanded in percent, not as a fraction.
Command_InPercent(control_var) == 10 * RoundedSigmoid(-control_var)

\* thrust_percent = round(self._sigmoid(-control_var), 1)
Command(control_var) == RoundedSigmoid(-control_var)

\* Rocket.update with a controller whose tick returned control_var.  A
\* throttle that set_thrust rejects ends the call at line 88.
ControlledUpdate(p, v, th, control_var, d, den, ground) ==
    LET percent == Command(control_var)
        r == Integrate(p, v, set_thrust(th, percent), d, den, ground)
    IN  IF accepts(percent)
        THEN [pos |-> r.pos, vel |-> r.vel, thrust |-> set_thrust(th, percent),
              ok |-> TRUE, contact |-> r.contact]
        ELSE [pos |-> p, vel |-> v, thrust |-> set_thrust(th, percent),
              ok |-> FALSE, contact |-> FALSE]

(***************************************************************************)
(* PIDController.tick, as section 4.2 of the specification gives it.       *)
(***************************************************************************)
\* The memory after tick(measured, d) and the control signal it returns, in
\* thousandths.  The error is in position units, the integral in position
\* units times time units; a dt of zero gives no derivative term.
PidTick(mem, setpoint, measured, d) ==
    LET error == setpoint - measured
        integral == mem.integral + error * d
        p_term == MulDiv(error, SignalDen * KP, SimPosDen)
        i_term == integral \div ((KI_INV \div SignalDen) * SimPosDen * SimTimeDen)
        d_term == IF d = 0 THEN 0
                  ELSE MulDiv(error - mem.previous,
                              (SignalDen \div 10) * KD_TENTHS * SimTimeDen,
                              SimPosDen * d)
    IN  [mem |-> [integral |-> integral, previous |-> error],
         u |-> p_term + i_term + d_term]

SimGround == GROUND_Y * SimPosDen
SimTarget == TARGET_Y * SimPosDen

(***************************************************************************)
(* State.                                                                  *)
(***************************************************************************)
NoPid == [integral |-> 0, previous |-> 0]

\* The rocket before the latest call.
Snapshot == [pos |-> pos, vel |-> vel, thrust |-> thrust_percent]

\* Rocket.__init__, with controller=None or with some controller
Init ==
    /\ \E drop \in StartDrops :
          pos = [x |-> (WIDTH \div 2) * PosDen, y |-> Ground - drop]
    /\ vel = [x |-> 0, y |-> 0]
    /\ thrust_percent = 0
    /\ controller \in {"none", "any"}
    /\ pid = NoPid
    /\ ticks = 0
    /\ last = [op |-> "init", arg |-> 0, ok |-> TRUE, contact |-> FALSE, u |-> 0]
    /\ pre = [pos |-> pos, vel |-> vel, thrust |-> 0]
    /\ fall = [n |-> 0, dt |-> 0]

\* A call of rocket.set_thrust(percent) from outside.  With a controller
\* attached the throttle is update's to set (Simulation.run calls update
\* alone), so the outside calls are those of the hand-driven rocket.
SetThrust ==
    \E percent \in Percents :
        /\ controller = "none"
        /\ thrust_percent' = set_thrust(thrust_percent, percent)
        /\ last' = [op |-> "set_thrust", arg |-> percent,
                    ok |-> accepts(percent), contact |-> FALSE, u |-> 0]
        /\ pre' = Snapshot
        /\ fall' = [n |-> 0, dt |-> 0]
        /\ UNCHANGED <<pos, vel, controller, pid, ticks>>

\* The run of free-fall ticks of one dt that started at rest.
FallAfter(d, r) ==
    IF /\ thrust_percent = 0
       /\ d > 0
       /\ ~r.contact
       /\ \/ fall.n = 0 /\ vel = [x |-> 0, y |-> 0]
          \/ fall.n > 0 /\ fall.dt = d
    THEN [n |-> fall.n + 1, dt |-> d]
    ELSE [n |-> 0, dt |-> 0]

\* A call of rocket.update(dt) on a rocket without controller.
Update ==
    \E d \in DtSet :
        /\ controller = "none"
        /\ ticks < MaxTicks
        /\ LET r == Integrate(pos, vel, thrust_percent, d, StepDen, Ground)
           IN  /\ pos' = r.pos
               /\ vel' = r.vel
               /\ last' = [op |-> "update", arg |-> d, ok |-> TRUE,
                           contact |-> r.contact, u |-> 0]
               /\ fall' = FallAfter(d, r)
        /\ pre' = Snapshot
        /\ ticks' = ticks + 1
        /\ UNCHANGED <<thrust_percent, controller, pid>>

\* A call of rocket.update(dt) on a rocket with a controller, whose tick
\* returns control_var.
UpdateCtl ==
    \E d \in DtSet, control_var \in Signals :
        /\ controller = "any"
        /\ ticks < MaxCtlTicks
        /\ LET r == ControlledUpdate(pos, vel, thrust_percent, control_var, d,
                                     StepDen, Ground)
           IN  /\ thrust_percent' = r.thrust
               /\ pos' = r.pos
               /\ vel' = r.vel
               /\ last' = [op |-> "update", arg |-> d, ok |-> r.ok,
                           contact |-> r.contact, u |-> control_var]
        /\ pre' = Snapshot
        /\ fall' = [n |-> 0, dt |-> 0]
        /\ ticks' = ticks + 1
        /\ UNCHANGED <<controller, pid>>

Next == SetThrust \/ Update \/ UpdateCtl

Spec == Init /\ [][Next]_vars

(***************************************************************************)
(* The closed loop of Simulation: the rocket on the ground, the PID        *)
(* controller attached, update called with one dt.                         *)
(***************************************************************************)
\* Simulation.__init__
InitSim ==
    /\ pos = [x |-> (WIDTH \div 2) * SimPosDen, y |-> SimGround]
    /\ vel = [x |-> 0, y |-> 0]
    /\ thrust_percent = 0
    /\ controller = "pid"
    /\ pid = NoPid
    /\ ticks = 0
    /\ last = [op |-> "init", arg |-> 0, ok |-> TRUE, contact |-> FALSE, u |-> 0]
    /\ pre = [pos |-> pos, vel |-> vel, thrust |-> 0]
    /\ fall = [n |-> 0, dt |-> 0]

\* One turn of the loop of Simulation.run: self._rocket.update(dt), with
\* the dt of the first turn kept for the run.
Tick ==
    \E d \in SimDts :
        /\ controller = "pid"
        /\ ticks < MaxSimTicks
        /\ ticks = 0 \/ d = last.arg
        /\ LET c == PidTick(pid, SimTarget, pos.y, d)
               r == ControlledUpdate(pos, vel, thrust_percent, c.u, d,
                                     SimStepDen, SimGround)
           IN  /\ pid' = c.mem
               /\ thrust_percent' = r.thrust
               /\ pos' = r.pos
               /\ vel' = r.vel
               /\ last' = [op |-> "update", arg |-> d, ok |-> r.ok,
                           contact |-> r.contact, u |-> c.u]
        /\ pre' = Snapshot
        /\ ticks' = ticks + 1
        /\ UNCHANGED <<controller, fall>>

NextSim == Tick

SpecSim == InitSim /\ [][NextSim]_vars

(***************************************************************************)
(* The claims about the hand-driven and the controlled rocket.             *)
(***************************************************************************)
\* The 11 throttle levels 0.0, 0.1, ..., 1.0, in hundredths.
Levels == {10 * k : k \in actions}

Updated == last.op = "update" /\ last.ok
Manual == controller = "none"

\* C1: set_thrust succeeds exactly for the 11 levels, and the throttle
\* stored by a successful call is its argument.
C1_Quantization ==
    last.op = "set_thrust" =>
        /\ last.ok <=> last.arg \in Levels
        /\ last.ok => thrust_percent = last.arg

\* C2: the vertical position never exceeds the ground level, whatever the
\* throttle, the control signal and dt.
C2_BelowGround == pos.y <= Ground

C2_Witness ==
    /\ Updated
    /\ last.contact
    /\ pre.pos.y < Ground
    /\ pos.y = Ground

\* C3 as stated: the commanded throttle is non-decreasing in the control
\* signal, and a large positive signal commands more than half throttle, a
\* large negative one less than half.
LargeSignal == 3 * SignalDen

C3_HigherSignalHigherThrottle ==
    (Updated /\ controller = "any") =>
        /\ \A u2 \in Signals : u2 >= last.u => Command(u2) >= thrust_percent
        /\ last.u >= LargeSignal => 2 * thrust_percent > PercentDen
        /\ last.u <= -LargeSignal => 2 * thrust_percent < PercentDen

\* C3 as amended: the commanded throttle is non-increasing in the control
\* signal, and a large positive signal commands less than half throttle, a
\* large negative one more than half.
C3_HigherSignalLowerThrottle ==
    (Updated /\ controller = "any") =>
        /\ thrust_percent = Command(last.u)
        /\ \A u2 \in Signals : u2 >= last.u => Command(u2) <= thrust_percent
        /\ last.u >= LargeSignal => 2 * thrust_percent < PercentDen
        /\ last.u <= -LargeSignal => 2 * thrust_percent > PercentDen

C3_Witness ==
    /\ Updated
    /\ controller = "any"
    /\ last.u >= LargeSignal
    /\ thrust_percent = 0
    /\ pre.thrust = PercentDen

\* C4: a rejected set_thrust leaves throttle, position and velocity as they
\* were.
C4_RejectedKeepsState ==
    (last.op = "set_thrust" /\ ~last.ok) =>
        /\ thrust_percent = pre.thrust
        /\ pos = pre.pos
        /\ vel = pre.vel

C4_Witness ==
    /\ last.op = "set_thrust"
    /\ ~last.ok
    /\ thrust_percent = 70
    /\ ticks > 0

\* The hand-driven rocket was on the ground, not moving down, with the
\* throttle at zero when update was called.
C5_Case ==
    /\ Manual
    /\ Updated
    /\ pre.pos.y = Ground
    /\ pre.vel.y <= 0
    /\ pre.thrust = 0

C6_LiftOff ==
    ( /\ Manual
      /\ Updated
      /\ pre.pos.y = Ground
      /\ pre.vel.y = 0
      /\ pre.thrust \in Levels
      /\ MAX_THRUST_FORCE * pre.thrust > GRAVITY_TENTHS * MASS * 10
      /\ last.arg > 0 ) =>
        (pos.y < Ground /\ vel.y < 0)

\* C7: after N free-fall ticks of one dt, started at rest, with no ground
\* contact, velocity.y is N * dt * g and velocity.x is 0.
C7_FreeFall ==
    fall.n > 0 =>
        /\ 10 * vel.y = fall.n * fall.dt * GRAVITY_TENTHS * MASS
        /\ vel.x = 0

C7_Witness ==
    /\ fall.n >= 3
    /\ 10 * vel.y = 3 * fall.dt * GRAVITY_TENTHS * MASS

\* The band around the setpoint, one metre wide on either side, and the time
\* given to reach it, 20 s.
Band == SimPosDen
SettleTime == 20 * SimTimeDen

\* C8: the closed loop of Simulation, run with one small dt, is within the
\* band around the setpoint once the settling time has passed, and stays
\* there (hence off the ground) for the rest of the run.
C8_Settles ==
    (controller = "pid" /\ ticks * last.arg >= SettleTime) =>
        /\ Abs(pos.y - SimTarget) <= Band
        /\ last.ok

C8_Witness ==
    /\ controller = "pid"
    /\ ticks * last.arg >= 2 * SettleTime
    /\ Abs(pos.y - SimTarget) <= Band
    /\ thrust_percent \in {60, 70}

\* C9: with a controller, update never fails, and it leaves the throttle at
\* one of the 11 levels.
C9_ControlledThrottle ==
    controller = "any" =>
        /\ last.ok
        /\ thrust_percent \in Levels
        /\ last.op = "update" => thrust_percent = Command(last.u)

C9_Witness ==
    /\ controller = "any"
    /\ Updated
    /\ ticks = 2
    /\ thrust_percent = 30
    /\ pre.thrust = 90

\* C10: after an update, a rocket on the ground has velocity.y <= 0, and a
\* velocity.y that is negative after integration is the one stored.
C10_Resting ==
    Updated =>
        /\ pos.y = Ground => vel.y <= 0
        /\ LET v1 == VelStep(pre.vel, thrust_percent, last.arg)
           IN  v1.y < 0 => vel.y = v1.y

C10_Witness ==
    /\ Updated
    /\ last.contact
    /\ pos.y = Ground
    /\ vel.y < 0

====
